---- MODULE Spec2Model ----
(***************************************************************************)
(* Model of internal/config/config.go of marketflash: LoadConfig, the       *)
(* layered resolver (defaults, then the YAML file, then the environment),   *)
(* and config.Validate, the aggregating validator.                          *)
(*                                                                          *)
(* Texts that the code parses (the PORT variable) are sequences of          *)
(* one-character strings, so that strconv.ParseInt is modelled by what it   *)
(* does.  Other texts are TLA+ strings.  An error value is a record         *)
(*   [nil, wraps, text]                                                     *)
(* where wraps is the list of sentinel errors errors.Is can find in it and  *)
(* text is the list of pieces of its Error() message.                       *)
(***************************************************************************)
EXTENDS Integers, Sequences, FiniteSets

VARIABLES env, fs, results

vars == <<env, fs, results>>

\* ------------------------------------------------------------------ bounds

\* The file's port values are drawn from -1..MaxFilePort and the boundary values.
MaxFilePort == 0

\* The PORT variable's numeric texts are drawn from -1..MaxEnvPort and the boundary values.
MaxEnvPort == 1

\* ------------------------------------------------------- program constants

DefaultPort == 8080

MinPort == 1

MaxPort == 65535

\* strconv.ParseInt(portStr, 10, 32): the largest and the smallest int32.
MaxInt32 == 2147483647

MinInt32 == (-2147483647) - 1

ErrReadConfig == "unable to read config file"
ErrParseYAML == "error parsing yaml"
ErrInvalidPort == "invalid port value"
ErrInvalidDebug == "invalid debug value"
ErrValidationFailed == "config validation failed"
ErrMissingDatabaseURL == "database_url is required"
ErrInvalidPortRange == "port must be between 1 and 65535"
ErrMissingAPIKey == "api key is missing"
ErrInvalidEnvironment == "environment must be one of: development, staging, production"

validEnvironments == <<"development", "staging", "production">>

\* The zero value of the struct: what LoadConfig returns beside an error.
ZeroConfig ==
  [DatabaseURL |-> "", Port |-> 0, Environment |-> "", APIKey |-> "", Debug |-> FALSE]

\* ------------------------------------------------------------------ errors

Range(s) == {s[i] : i \in 1..Len(s)}

Nil == [nil |-> TRUE, wraps |-> <<>>, text |-> <<>>]

\* errors.New(msg): a sentinel wraps itself only.
New(msg) == [nil |-> FALSE, wraps |-> <<msg>>, text |-> <<msg>>]

\* fmt.Errorf("%w: <detail>", sentinel, ...): only the %w operand stays in the
\* chain; an operand formatted with %s, %d or %q contributes text alone.
Errorf(sentinel, detail) ==
  [nil |-> FALSE, wraps |-> <<sentinel>>, text |-> <<sentinel, ": ">> \o detail]

RECURSIVE JoinWraps(_)
JoinWraps(errs) ==
  IF errs = <<>> THEN <<>> ELSE Head(errs).wraps \o JoinWraps(Tail(errs))

RECURSIVE JoinText(_)
JoinText(errs) ==
  IF errs = <<>> THEN <<>>
  ELSE IF Len(errs) = 1 THEN Head(errs).text
  ELSE Head(errs).text \o <<"\n">> \o JoinText(Tail(errs))

\* errors.Join(errs...): every joined error stays in the chain, the messages
\* are joined by newlines.
Join(errs) == [nil |-> FALSE, wraps |-> JoinWraps(errs), text |-> JoinText(errs)]

\* errors.Is(err, target)
Is(err, target) == (~err.nil) /\ target \in Range(err.wraps)

\* strings.Contains(err.Error(), target.Error())
Contains(err, target) == (~err.nil) /\ target \in Range(err.text)

\* -------------------------------------------------------------- conversions

Digits == <<"0", "1", "2", "3", "4", "5", "6", "7", "8", "9">>

IsDigit(c) == c \in Range(Digits)

DigitVal(c) == (CHOOSE i \in 1..10 : Digits[i] = c) - 1

\* The %d verb of fmt on a non-negative int.
RECURSIVE NatToText(_)
NatToText(n) ==
  IF n < 10 THEN <<Digits[n + 1]>> ELSE NatToText(n \div 10) \o <<Digits[(n % 10) + 1]>>

\* The %d verb of fmt.
IntToText(n) == IF n < 0 THEN <<"-">> \o NatToText(-n) ELSE NatToText(n)

\* The %q verb of fmt on a text without special characters.
Quote(t) == <<"\"">> \o t \o <<"\"">>

\* The digits of strconv.ParseInt's operand accumulated left to right, with the
\* sign already applied, in 32 bits: over is set as soon as the value leaves
\* [MinInt32, MaxInt32].
RECURSIVE Accumulate(_, _, _)
Accumulate(ds, neg, acc) ==
  IF ds = <<>> THEN [over |-> FALSE, n |-> acc]
  ELSE LET d == DigitVal(Head(ds))
           fits == IF neg THEN acc >= (MinInt32 + d + 9) \div 10
                          ELSE acc <= (MaxInt32 - d) \div 10
       IN IF ~fits THEN [over |-> TRUE, n |-> IF neg THEN MinInt32 ELSE MaxInt32]
          ELSE Accumulate(Tail(ds), neg, IF neg THEN acc * 10 - d ELSE acc * 10 + d)

\* strconv.ParseInt(s, 10, 32): an optional sign, then one or more decimal
\* digits; a syntax error otherwise, a range error outside int32.
ParseInt(s) ==
  IF s = <<>> THEN [err |-> TRUE, n |-> 0]
  ELSE LET neg == Head(s) = "-"
           ds == IF Head(s) \in {"+", "-"} THEN Tail(s) ELSE s
       IN IF ds = <<>> \/ \E i \in 1..Len(ds) : ~IsDigit(ds[i])
          THEN [err |-> TRUE, n |-> 0]
          ELSE LET a == Accumulate(ds, neg, 0) IN [err |-> a.over, n |-> a.n]

\* strconv.ParseBool(str)
ParseBool(str) ==
  IF str \in {"1", "t", "T", "TRUE", "true", "True"} THEN [err |-> FALSE, b |-> TRUE]
  ELSE IF str \in {"0", "f", "F", "FALSE", "false", "False"} THEN [err |-> FALSE, b |-> FALSE]
  ELSE [err |-> TRUE, b |-> FALSE]

\* --------------------------------------------------------------- the file

\* The one path the file system of the model knows; LoadConfig is called with
\* it or with the empty path.
ConfigPath == "config.yaml"

\* A line of the file as the YAML decoder sees it: a key with a scalar of
\* the resolved tag (the value in s, n or b), a comment, or text that is
\* not YAML.
StrLine(k, v) == [key |-> k, tag |-> "str", s |-> v, n |-> 0, b |-> FALSE]
IntLine(k, v) == [key |-> k, tag |-> "int", s |-> "", n |-> v, b |-> FALSE]
BoolLine(k, v) == [key |-> k, tag |-> "bool", s |-> "", n |-> 0, b |-> v]
CommentLine == [key |-> "", tag |-> "comment", s |-> "", n |-> 0, b |-> FALSE]
InvalidLine == [key |-> "", tag |-> "invalid", s |-> "", n |-> 0, b |-> FALSE]

\* os.ReadFile(path): the bytes, or the error of the operating system.
ReadFile(path) ==
  IF path # ConfigPath \/ fs.kind = "missing"
  THEN [err |-> New("no such file or directory"), data |-> <<>>]
  ELSE IF fs.kind = "dir" THEN [err |-> New("is a directory"), data |-> <<>>]
  ELSE IF fs.kind = "noperm" THEN [err |-> New("permission denied"), data |-> <<>>]
  ELSE [err |-> Nil, data |-> fs.data]

\* IsNotExist as it would be if no error counted as "does not exist".
MutIsNotExistNever(err) == FALSE

\* os.IsNotExist(err)
IsNotExist(err) == Is(err, "no such file or directory")

\* The struct tags: the field a YAML key decodes into, and the tag its type takes.
FieldOf(key) ==
  CASE key = "database_url" -> "DatabaseURL"
    [] key = "port" -> "Port"
    [] key = "environment" -> "Environment"
    [] key = "api_key" -> "APIKey"
    [] key = "debug" -> "Debug"
    [] OTHER -> ""

TagOf(field) ==
  CASE field = "Port" -> "int"
    [] field = "Debug" -> "bool"
    [] OTHER -> "str"

ValueOf(line) ==
  CASE line.tag = "int" -> line.n
    [] line.tag = "bool" -> line.b
    [] OTHER -> line.s

\* The decoder's pass over the mapping: a key of the struct overwrites its
\* field, an unknown key and a comment are ignored, a scalar of the wrong
\* type is a type error reported after the pass.
RECURSIVE Decode(_, _)
Decode(data, out) ==
  IF data = <<>> THEN [bad |-> FALSE, cfg |-> out]
  ELSE LET line == Head(data)
           field == FieldOf(line.key)
       IN IF line.tag = "comment" \/ field = "" THEN Decode(Tail(data), out)
          ELSE IF line.tag # TagOf(field)
          THEN [bad |-> TRUE, cfg |-> Decode(Tail(data), out).cfg]
          ELSE Decode(Tail(data), [out EXCEPT ![field] = ValueOf(line)])

\* yaml.Unmarshal(data, &cfg)
Unmarshal(data, out) ==
  IF \E i \in 1..Len(data) : data[i].tag = "invalid"
  THEN [err |-> New("yaml: mapping values are not allowed in this context"), cfg |-> out]
  ELSE LET d == Decode(data, out)
       IN IF d.bad THEN [err |-> New("yaml: unmarshal errors"), cfg |-> d.cfg]
          ELSE [err |-> Nil, cfg |-> d.cfg]

\* -------------------------------------------------------- the environment

\* os.LookupEnv(name): the value and whether the variable is present.
LookupEnv(name) == env[name]

Present(v) == [ok |-> TRUE, val |-> v]
AbsentStr == [ok |-> FALSE, val |-> ""]
AbsentText == [ok |-> FALSE, val |-> <<>>]

\* ------------------------------------------------------------- LoadConfig

\* DefaultConfig as it would be with the port left at its zero value.
MutDefaultConfigNoPort ==
  [DatabaseURL |-> "", Port |-> 0, Environment |-> "development",
   APIKey |-> "", Debug |-> FALSE]

\* The composite literal LoadConfig starts from.
DefaultConfig ==
  [DatabaseURL |-> "", Port |-> DefaultPort, Environment |-> "development",
   APIKey |-> "", Debug |-> FALSE]

\* One stage's outcome: the configuration so far, the error LoadConfig returns
\* if the stage failed, and the stage.
Continue(cfg) == [err |-> Nil, cfg |-> cfg, stage |-> "ok"]
Fail(stage, err, cfg) == [err |-> err, cfg |-> cfg, stage |-> stage]

\* ApplyFile as it would be without the check for an empty file: the empty
\* file is decoded, which sets nothing.
MutApplyFileSkipsEmpty(cfgPath, cfg) ==
  IF cfgPath = "" THEN Continue(cfg)
  ELSE LET r == ReadFile(cfgPath)
       IN IF (~r.err.nil) /\ ~(Is(r.err, "no such file or directory"))
          THEN Fail("read", Errorf(ErrReadConfig, r.err.text), cfg)
          ELSE IF r.err.nil /\ Len(r.data) > 0
          THEN LET u == Unmarshal(r.data, cfg)
               IN IF ~u.err.nil
                  THEN Fail("parse", Errorf(ErrParseYAML, u.err.text), u.cfg)
                  ELSE Continue(u.cfg)
          ELSE Continue(cfg)

\* if cfgPath != "" { ... }: read the file and decode it over the defaults.
ApplyFile(cfgPath, cfg) ==
  IF cfgPath = "" THEN Continue(cfg)
  ELSE LET r == ReadFile(cfgPath)
       IN IF (~r.err.nil) /\ ~IsNotExist(r.err)
          THEN Fail("read", Errorf(ErrReadConfig, r.err.text), cfg)
          ELSE IF r.err.nil /\ Len(r.data) = 0
          THEN Fail("read", Errorf(ErrReadConfig, <<"config file is empty">>), cfg)
          ELSE IF r.err.nil /\ Len(r.data) > 0
          THEN LET u == Unmarshal(r.data, cfg)
               IN IF ~u.err.nil
                  THEN Fail("parse", Errorf(ErrParseYAML, u.err.text), u.cfg)
                  ELSE Continue(u.cfg)
          ELSE Continue(cfg)

\* OverrideDatabaseURL as it would be if an empty value counted as unset.
MutOverrideDatabaseURLNonEmpty(cfg) ==
  LET l == LookupEnv("DATABASE_URL")
  IN IF l.ok /\ l.val # "" THEN [cfg EXCEPT !.DatabaseURL = l.val] ELSE cfg

OverrideDatabaseURL(cfg) ==
  LET l == LookupEnv("DATABASE_URL")
  IN IF l.ok THEN [cfg EXCEPT !.DatabaseURL = l.val] ELSE cfg

\* OverridePort as it would be with the lower bound off by one.
MutOverridePortAllowsZero(cfg) ==
  LET l == LookupEnv("PORT")
  IN IF l.ok
     THEN LET p == ParseInt(l.val)
          IN IF p.err \/ p.n < 0 \/ p.n > MaxPort
             THEN Fail("port", Errorf(ErrInvalidPort, <<"got ">> \o Quote(l.val)), cfg)
             ELSE Continue([cfg EXCEPT !.Port = p.n])
     ELSE Continue(cfg)

OverridePort(cfg) ==
  LET l == LookupEnv("PORT")
  IN IF l.ok
     THEN LET p == ParseInt(l.val)
          IN IF p.err \/ p.n < MinPort \/ p.n > MaxPort
             THEN Fail("port", Errorf(ErrInvalidPort, <<"got ">> \o Quote(l.val)), cfg)
             ELSE Continue([cfg EXCEPT !.Port = p.n])
     ELSE Continue(cfg)

OverrideAPIKey(cfg) ==
  LET l == LookupEnv("API_KEY")
  IN IF l.ok THEN [cfg EXCEPT !.APIKey = l.val] ELSE cfg

\* OverrideEnvironment as it would be if it took only the allowed names.
MutOverrideEnvironmentAllowedOnly(cfg) ==
  LET l == LookupEnv("ENVIRONMENT")
  IN IF l.ok /\ l.val \in Range(validEnvironments)
     THEN [cfg EXCEPT !.Environment = l.val] ELSE cfg

OverrideEnvironment(cfg) ==
  LET l == LookupEnv("ENVIRONMENT")
  IN IF l.ok THEN [cfg EXCEPT !.Environment = l.val] ELSE cfg

OverrideDebug(cfg) ==
  LET l == LookupEnv("DEBUG")
  IN IF l.ok
     THEN LET d == ParseBool(l.val)
          IN IF d.err
             THEN Fail("debug", Errorf(ErrInvalidDebug, <<"got ">> \o Quote(<<l.val>>)), cfg)
             ELSE Continue([cfg EXCEPT !.Debug = d.b])
     ELSE Continue(cfg)

\* The four checks of Validate in their order; each appends its error when
\* it fails, whatever the others did.
CheckDatabaseURL(c, errs) ==
  IF c.DatabaseURL = "" THEN Append(errs, New(ErrMissingDatabaseURL)) ELSE errs

\* CheckPort as it would be with the lower bound off by one.
MutCheckPortAllowsZero(c, errs) ==
  IF c.Port < 0 \/ c.Port > MaxPort
  THEN Append(errs, Errorf(ErrInvalidPortRange, <<"got ">> \o IntToText(c.Port)))
  ELSE errs

CheckPort(c, errs) ==
  IF c.Port < MinPort \/ c.Port > MaxPort
  THEN Append(errs, Errorf(ErrInvalidPortRange, <<"got ">> \o IntToText(c.Port)))
  ELSE errs

CheckAPIKey(c, errs) ==
  IF c.APIKey = "" THEN Append(errs, New(ErrMissingAPIKey)) ELSE errs

CheckEnvironment(c, errs) ==
  IF c.Environment \notin Range(validEnvironments)
  THEN Append(errs, Errorf(ErrInvalidEnvironment, <<"got ">> \o Quote(<<c.Environment>>)))
  ELSE errs

\* Validate as it would be if it stopped at the first broken rule.
MutValidateFirstOnly(c) ==
  LET errs == CheckEnvironment(c, CheckAPIKey(c, CheckPort(c, CheckDatabaseURL(c, <<>>))))
  IN IF Len(errs) > 0 THEN Join(<<Head(errs)>>) ELSE Nil

\* func (c config) Validate() error
Validate(c) ==
  LET errs == CheckEnvironment(c, CheckAPIKey(c, CheckPort(c, CheckDatabaseURL(c, <<>>))))
  IN IF Len(errs) > 0 THEN Join(errs) ELSE Nil

\* What a call leaves: the returned pair (cfg, err) and, for the locals,
\* the stage that returned, the configuration as merged when it returned
\* and the error Validate gave (Nil when Validate was not reached).
Returned(stage, cfg, err, merged, verr) ==
  [called |-> TRUE, stage |-> stage, cfg |-> cfg, err |-> err,
   merged |-> merged, verr |-> verr]

\* if err := cfg.Validate(); err != nil { ... }; return cfg, nil
ValidateAndReturn(cfg) ==
  LET verr == Validate(cfg)
  IN IF ~verr.nil
     THEN Returned("validate", ZeroConfig, Errorf(ErrValidationFailed, verr.text), cfg, verr)
     ELSE Returned("return", cfg, Nil, cfg, verr)

\* A stage's early return: return config{}, fmt.Errorf(...)
EarlyReturn(st) == Returned(st.stage, ZeroConfig, st.err, st.cfg, Nil)

\* LoadConfig as it would be with DEBUG converted before PORT.
MutLoadConfigDebugFirst(cfgPath) ==
  LET f == ApplyFile(cfgPath, DefaultConfig)
  IN IF ~f.err.nil THEN EarlyReturn(f)
     ELSE LET d == OverrideDebug(OverrideDatabaseURL(f.cfg))
          IN IF ~d.err.nil THEN EarlyReturn(d)
             ELSE LET p == OverridePort(d.cfg)
                  IN IF ~p.err.nil THEN EarlyReturn(p)
                     ELSE ValidateAndReturn(OverrideEnvironment(OverrideAPIKey(p.cfg)))

\* func LoadConfig(cfgPath string) (config, error)
LoadConfig(cfgPath) ==
  LET f == ApplyFile(cfgPath, DefaultConfig)
  IN IF ~f.err.nil THEN EarlyReturn(f)
     ELSE LET p == OverridePort(OverrideDatabaseURL(f.cfg))
          IN IF ~p.err.nil THEN EarlyReturn(p)
             ELSE LET d == OverrideDebug(OverrideEnvironment(OverrideAPIKey(p.cfg)))
                  IN IF ~d.err.nil THEN EarlyReturn(d)
                     ELSE ValidateAndReturn(d.cfg)

\* ------------------------------------------------------ the inputs drawn

\* The port values a file may set: in range, at both boundaries, just outside.
FilePorts == (-1..MaxFilePort) \cup {MaxPort, MaxPort + 1}

\* The PORT texts: the decimal texts of some integers, and texts ParseInt
\* treats specially (empty, not a number, a sign, leading zeros, a number
\* outside int32).
EnvPortTexts ==
  {IntToText(n) : n \in (-1..MaxEnvPort) \cup {MaxPort, MaxPort + 1}}
  \cup {<<>>, <<"a", "b", "c">>, <<"+", "1">>, <<"0", "8", "0">>,
        <<"2", "1", "4", "7", "4", "8", "3", "6", "4", "8">>}

\* A file's content: each key is set or left out, in the order of the struct.
Optional(lines) == {<<>>} \cup {<<l>> : l \in lines}

MappingFiles ==
  {db \o port \o en \o key \o dbg :
     db \in Optional({StrLine("database_url", "postgres://file")}),
     port \in Optional({IntLine("port", n) : n \in FilePorts}),
     en \in Optional({StrLine("environment", "staging"), StrLine("environment", "bogus")}),
     key \in Optional({StrLine("api_key", "file-key")}),
     dbg \in Optional({BoolLine("debug", TRUE)})}

\* Contents that are not a plain mapping of the struct's keys: text that is not
\* YAML, a port that is no integer, only a comment, only an unknown key.
OtherFiles ==
  {<<InvalidLine>>,
   <<StrLine("api_key", "file-key"), StrLine("port", "abc")>>,
   <<CommentLine>>,
   <<StrLine("log_level", "info")>>}

FileStates ==
  {[kind |-> k, data |-> <<>>] : k \in {"missing", "dir", "noperm"}}
  \cup {[kind |-> "file", data |-> d] : d \in MappingFiles \cup OtherFiles}

Environments ==
  {[DATABASE_URL |-> db, PORT |-> port, API_KEY |-> key, ENVIRONMENT |-> en, DEBUG |-> dbg] :
     db \in {AbsentStr, Present(""), Present("postgres://env")},
     port \in {AbsentText} \cup {Present(t) : t \in EnvPortTexts},
     key \in {AbsentStr, Present("env-key")},
     en \in {AbsentStr, Present("production"), Present("bogus")},
     dbg \in {AbsentStr, Present("true"), Present("F"), Present("invalid")}}

Paths == {"", ConfigPath}

\* --------------------------------------------------------- the state machine

NotCalled ==
  [called |-> FALSE, stage |-> "", cfg |-> ZeroConfig, err |-> Nil,
   merged |-> ZeroConfig, verr |-> Nil]

Init ==
  /\ env \in Environments
  /\ fs \in FileStates
  /\ results = [p \in Paths |-> NotCalled]

\* A call of LoadConfig(cfgPath) in the environment and on the file system of
\* the state.
LoadConfigCall(cfgPath) ==
  /\ results' = [results EXCEPT ![cfgPath] = LoadConfig(cfgPath)]
  /\ UNCHANGED <<env, fs>>

Next == \E cfgPath \in Paths : LoadConfigCall(cfgPath)

Spec == Init /\ [][Next]_vars

\* -------------------------------------------- what the inputs are, as told
\* by the specification, without the code's conversions

\* The file layer a call with path p sees: the file's lines, or none.
FileLayer(p) == IF p # "" /\ fs.kind = "file" THEN fs.data ELSE <<>>

StringKeys == {"database_url", "environment", "api_key"}

WellFormedYAML(data) ==
  \A i \in 1..Len(data) :
    /\ data[i].tag # "invalid"
    /\ data[i].key = "port" => data[i].tag = "int"
    /\ data[i].key = "debug" => data[i].tag = "bool"
    /\ data[i].key \in StringKeys => data[i].tag = "str"

FileReadFails(p) ==
  p # "" /\ (fs.kind \in {"dir", "noperm"} \/ (fs.kind = "file" /\ fs.data = <<>>))

FileParseFails(p) ==
  p # "" /\ fs.kind = "file" /\ fs.data # <<>> /\ ~WellFormedYAML(fs.data)

\* The file layer is absent, or was read and parsed without error.
FileLayerOK(p) == ~FileReadFails(p) /\ ~FileParseFails(p)

FileSets(p, key) == \E i \in 1..Len(FileLayer(p)) : FileLayer(p)[i].key = key

FileLine(p, key) ==
  FileLayer(p)[CHOOSE i \in 1..Len(FileLayer(p)) : FileLayer(p)[i].key = key]

RECURSIVE StripZeros(_)
StripZeros(t) == IF t # <<>> /\ Head(t) = "0" THEN StripZeros(Tail(t)) ELSE t

RECURSIVE DecimalValue(_)
DecimalValue(t) ==
  IF t = <<>> THEN 0
  ELSE 10 * DecimalValue(SubSeq(t, 1, Len(t) - 1))
       + (CHOOSE d \in 0..9 : NatToText(d) = <<t[Len(t)]>>)

\* The significant digits of a text that is an optional plus sign and one or
\* more decimal digits; <<"x">> for any other text.
Significant(t) ==
  LET body == IF t # <<>> /\ Head(t) = "+" THEN Tail(t) ELSE t
  IN IF body # <<>> /\ \A i \in 1..Len(body) : body[i] \in {NatToText(d)[1] : d \in 0..9}
     THEN StripZeros(body) ELSE <<"x">>

\* The text is a base-10 integer in [1, 65535].
PortTextValid(t) ==
  /\ Significant(t) # <<"x">>
  /\ Len(Significant(t)) \in 1..5
  /\ DecimalValue(Significant(t)) \in 1..65535

PortTextValue(t) == DecimalValue(Significant(t))

TrueTexts == {"1", "t", "T", "TRUE", "true", "True"}

FalseTexts == {"0", "f", "F", "FALSE", "false", "False"}

EnvWellFormed ==
  /\ env.PORT.ok => PortTextValid(env.PORT.val)
  /\ env.DEBUG.ok => env.DEBUG.val \in TrueTexts \cup FalseTexts

\* Environment value if present, else the file's if the file sets the key,
\* else the default.
Layered(p) ==
  [DatabaseURL |->
     IF env.DATABASE_URL.ok THEN env.DATABASE_URL.val
     ELSE IF FileSets(p, "database_url") THEN FileLine(p, "database_url").s ELSE "",
   Port |->
     IF env.PORT.ok THEN PortTextValue(env.PORT.val)
     ELSE IF FileSets(p, "port") THEN FileLine(p, "port").n ELSE 8080,
   Environment |->
     IF env.ENVIRONMENT.ok THEN env.ENVIRONMENT.val
     ELSE IF FileSets(p, "environment") THEN FileLine(p, "environment").s ELSE "development",
   APIKey |->
     IF env.API_KEY.ok THEN env.API_KEY.val
     ELSE IF FileSets(p, "api_key") THEN FileLine(p, "api_key").s ELSE "",
   Debug |->
     IF env.DEBUG.ok THEN env.DEBUG.val \in TrueTexts
     ELSE IF FileSets(p, "debug") THEN FileLine(p, "debug").b ELSE FALSE]

\* The four validity rules, each with the error that reports it, in the
\* order of the checks.
Rules == <<ErrMissingDatabaseURL, ErrInvalidPortRange, ErrMissingAPIKey, ErrInvalidEnvironment>>

Breaks(c, rule) ==
  CASE rule = ErrMissingDatabaseURL -> c.DatabaseURL = ""
    [] rule = ErrInvalidPortRange -> c.Port \notin 1..65535
    [] rule = ErrMissingAPIKey -> c.APIKey = ""
    [] rule = ErrInvalidEnvironment ->
         c.Environment \notin {"development", "staging", "production"}

Broken(c) == SelectSeq(Rules, LAMBDA r : Breaks(c, r))

NoEnvironment ==
  \A v \in {"DATABASE_URL", "PORT", "API_KEY", "ENVIRONMENT", "DEBUG"} : ~env[v].ok

\* ------------------------------------------------------------------ claims

\* C1: for a file layer that is absent or parses and an environment whose
\* PORT and DEBUG are well-formed, the value LoadConfig hands to Validate, and
\* returns on success, has in each field the environment's value if the
\* variable is present, else the file's if the file sets the key, else the
\* default.
C1_Layering ==
  \A p \in Paths :
    (results[p].called /\ FileLayerOK(p) /\ EnvWellFormed) =>
      /\ results[p].stage \in {"validate", "return"}
      /\ results[p].merged = Layered(p)
      /\ results[p].err.nil => results[p].cfg = Layered(p)

\* C1's case: a successful call where the file and the environment both set
\* the port and the database URL, and the environment clears the latter.
C1_Witness ==
  /\ results[ConfigPath].called /\ results[ConfigPath].err.nil
  /\ FileSets(ConfigPath, "port") /\ env.PORT.ok
  /\ FileLine(ConfigPath, "port").n # results[ConfigPath].cfg.Port
  /\ FileSets(ConfigPath, "environment") /\ ~env.ENVIRONMENT.ok
  /\ ~FileSets(ConfigPath, "debug") /\ ~env.DEBUG.ok
  /\ FileSets(ConfigPath, "api_key") /\ env.API_KEY.ok

\* C2: a configuration LoadConfig returns without error satisfies the four
\* validity rules.
C2_ReturnedIsValid ==
  \A p \in Paths :
    (results[p].called /\ results[p].err.nil) =>
      /\ results[p].cfg.DatabaseURL # ""
      /\ results[p].cfg.Port \in 1..65535
      /\ results[p].cfg.Environment \in {"development", "staging", "production"}
      /\ results[p].cfg.APIKey # ""

\* C2's case: successful calls, one of them with the port at a boundary.
C2_Witness ==
  /\ results[""].called /\ results[""].err.nil
  /\ results[ConfigPath].called /\ results[ConfigPath].err.nil
  /\ results[ConfigPath].cfg.Port \in {1, 65535}

C4_FieldErrorsIdentifiable ==
  \A p \in Paths :
    (results[p].called /\ results[p].stage = "validate") =>
      /\ Is(results[p].err, ErrValidationFailed)
      /\ \A i \in 1..Len(Broken(results[p].merged)) :
           Is(results[p].err, Broken(results[p].merged)[i])

\* C5: with no file layer and no environment variable, the value LoadConfig
\* resolves has the defaults of the optional fields, and the call fails
\* validation for the database URL and the API key and for nothing else.
C5_DefaultsAloneFail ==
  \A p \in Paths :
    (results[p].called /\ NoEnvironment /\ (p = "" \/ fs.kind = "missing")) =>
      /\ results[p].merged.Port = 8080
      /\ results[p].merged.Environment = "development"
      /\ results[p].merged.Debug = FALSE
      /\ Is(results[p].err, ErrValidationFailed)
      /\ results[p].verr.wraps = <<ErrMissingDatabaseURL, ErrMissingAPIKey>>
      /\ Contains(results[p].err, ErrMissingDatabaseURL)
      /\ Contains(results[p].err, ErrMissingAPIKey)
      /\ ~Contains(results[p].err, ErrInvalidPortRange)
      /\ ~Contains(results[p].err, ErrInvalidEnvironment)

\* C5's case: LoadConfig("") was called in an empty environment.
C5_Witness ==
  /\ NoEnvironment
  /\ results[""].called
  /\ Is(results[""].err, ErrValidationFailed)

\* C6: a path that does not exist is no file layer: the call returns what the
\* call with the empty path returns, never ErrReadConfig or ErrParseYAML; any
\* other failure to read is ErrReadConfig.
C6_MissingFileIsNoFile ==
  /\ (results[ConfigPath].called /\ fs.kind = "missing") =>
       /\ ~Is(results[ConfigPath].err, ErrReadConfig)
       /\ ~Is(results[ConfigPath].err, ErrParseYAML)
       /\ results[""].called =>
            /\ results[ConfigPath].cfg = results[""].cfg
            /\ results[ConfigPath].err = results[""].err
  /\ (results[ConfigPath].called /\ fs.kind \in {"dir", "noperm"}) =>
       Is(results[ConfigPath].err, ErrReadConfig)

\* C6's case: both calls were made with the file missing, and succeeded.
C6_Witness ==
  /\ fs.kind = "missing"
  /\ results[ConfigPath].called /\ results[""].called
  /\ results[ConfigPath].err.nil

\* C7: an existing file of zero length makes LoadConfig fail with
\* ErrReadConfig in every environment, never with ErrParseYAML, and the file
\* is never skipped.
C7_EmptyFileIsReadError ==
  (results[ConfigPath].called /\ fs.kind = "file" /\ Len(fs.data) = 0) =>
    /\ Is(results[ConfigPath].err, ErrReadConfig)
    /\ ~Is(results[ConfigPath].err, ErrParseYAML)
    /\ results[ConfigPath].stage = "read"

\* C7's case: the file is empty and the environment alone is a valid
\* configuration, as the call with the empty path shows.
C7_Witness ==
  /\ fs.kind = "file" /\ Len(fs.data) = 0
  /\ results[ConfigPath].called
  /\ results[""].called /\ results[""].err.nil

\* C8: when the file layer is absent or parsed, a PORT that is not a base-10
\* integer in [1, 65535] makes LoadConfig fail with ErrInvalidPort and not
\* with ErrValidationFailed, whatever the file, the defaults and the other
\* variables give; a PORT in the range, 1 and 65535 included, is accepted.
C8_MalformedPort ==
  \A p \in Paths :
    (results[p].called /\ FileLayerOK(p) /\ env.PORT.ok) =>
      IF PortTextValid(env.PORT.val)
      THEN ~Is(results[p].err, ErrInvalidPort)
           /\ results[p].merged.Port = PortTextValue(env.PORT.val)
      ELSE Is(results[p].err, ErrInvalidPort)
           /\ ~Is(results[p].err, ErrValidationFailed)
           /\ results[p].stage = "port"

\* C8's case: PORT is a number outside int32 while the file's port is valid
\* and the rest of the environment is a valid configuration.
C8_Witness ==
  /\ results[ConfigPath].called
  /\ env.PORT.ok /\ Len(env.PORT.val) = 10
  /\ FileSets(ConfigPath, "port") /\ FileLine(ConfigPath, "port").n = MaxPort
  /\ env.DATABASE_URL.ok /\ env.DATABASE_URL.val # "" /\ env.API_KEY.ok
  /\ Is(results[ConfigPath].err, ErrInvalidPort)

\* C9: an ENVIRONMENT outside {development, staging, production} overrides
\* verbatim and, when no earlier stage fails, LoadConfig fails with
\* ErrValidationFailed whose message carries that of ErrInvalidEnvironment,
\* never with ErrInvalidPort or ErrInvalidDebug.
C9_EnvironmentDeferred ==
  \A p \in Paths :
    (/\ results[p].called /\ FileLayerOK(p) /\ EnvWellFormed
     /\ env.ENVIRONMENT.ok
     /\ env.ENVIRONMENT.val \notin {"development", "staging", "production"}) =>
      /\ results[p].merged.Environment = env.ENVIRONMENT.val
      /\ results[p].stage = "validate"
      /\ Is(results[p].err, ErrValidationFailed)
      /\ Is(results[p].verr, ErrInvalidEnvironment)
      /\ Contains(results[p].err, ErrInvalidEnvironment)
      /\ Contains(results[p].err, env.ENVIRONMENT.val)
      /\ ~Is(results[p].err, ErrInvalidPort)
      /\ ~Is(results[p].err, ErrInvalidDebug)

\* C9's case: the file names a valid environment, ENVIRONMENT overrides it
\* with an invalid one, and nothing else is wrong.
C9_Witness ==
  /\ results[ConfigPath].called
  /\ FileSets(ConfigPath, "environment")
  /\ FileLine(ConfigPath, "environment").s = "staging"
  /\ env.ENVIRONMENT.ok /\ env.ENVIRONMENT.val = "bogus"
  /\ results[ConfigPath].verr.wraps = <<ErrInvalidEnvironment>>

\* The stage of LoadConfig that fails first on the inputs, "return" if none.
FirstFailing(p) ==
  IF FileReadFails(p) THEN "read"
  ELSE IF FileParseFails(p) THEN "parse"
  ELSE IF env.PORT.ok /\ ~PortTextValid(env.PORT.val) THEN "port"
  ELSE IF env.DEBUG.ok /\ env.DEBUG.val \notin TrueTexts \cup FalseTexts THEN "debug"
  ELSE IF Broken(Layered(p)) # <<>> THEN "validate"
  ELSE "return"

KindOf(stage) ==
  CASE stage = "read" -> ErrReadConfig
    [] stage = "parse" -> ErrParseYAML
    [] stage = "port" -> ErrInvalidPort
    [] stage = "debug" -> ErrInvalidDebug
    [] stage = "validate" -> ErrValidationFailed

\* C10: a failed call reports exactly one error kind, that of the first
\* failing stage in the order read, parse, PORT, DEBUG, validation, no later
\* stage having run, and returns the zero configuration.
C10_FirstFailingStage ==
  \A p \in Paths :
    results[p].called =>
      /\ results[p].stage = FirstFailing(p)
      /\ results[p].err.nil <=> FirstFailing(p) = "return"
      /\ (~results[p].err.nil) =>
           /\ results[p].err.wraps = <<KindOf(FirstFailing(p))>>
           /\ results[p].cfg = ZeroConfig
           /\ results[p].stage # "validate" => results[p].verr.nil

\* C10's case: the file cannot be parsed, PORT and DEBUG are malformed and the
\* database URL is missing; the call reports the file alone.
C10_Witness ==
  /\ results[ConfigPath].called
  /\ FileParseFails(ConfigPath)
  /\ env.PORT.ok /\ ~PortTextValid(env.PORT.val)
  /\ env.DEBUG.ok /\ env.DEBUG.val = "invalid"
  /\ ~env.DATABASE_URL.ok
  /\ results[ConfigPath].err.wraps = <<ErrParseYAML>>
  /\ results[ConfigPath].cfg = ZeroConfig

====
